---- MODULE Spec2Model ----
(***************************************************************************)
(* Query orchestration engine of the hybrid RAG backend:                   *)
(*   ManagerAgent (src/src/backend/agents/manager_agent.py), its routing   *)
(*   decision cache and schema cache, the LangGraph workflow               *)
(*   manager -> table | rag | parallel -> combiner, CombinerAgent          *)
(*   (combiner_agent.py) and the /answer endpoint (routes/chat.py).        *)
(*                                                                         *)
(* Texts are sequences of one-character strings, so that lower(), strip()  *)
(* and concatenation are computed and not assumed.  Fixed messages of the  *)
(* code are one-token sequences.                                           *)
(***************************************************************************)
EXTENDS Integers, Sequences, FiniteSets, TLC

VARIABLES
    req,                    \* per request slot: AgentState, position, locals
    classification_cache,   \* self._classification_cache, an insertion-ordered dict
    schema_cache,           \* self._schema_cache: NoCache (None) or a dict key -> text
    schema_cache_time,      \* self._schema_cache_time: NoTime (None) or a time
    now,                    \* time.time()
    agents,                 \* which of table_agent / chatbot_agent / combiner_agent are set
    refreshed,              \* history: cache key -> time its schema text was last fetched
    last_load,              \* history: the last _load_table_schema call
    decided_for,            \* history: decision cache key -> the pdf_uuid of the
                            \* request whose Decision Service call gave the entry
    prev,                   \* history: the request that returned last, kept when
                            \* requests come one at a time
    served                  \* history: requests submitted, counted when requests
                            \* run in several threads

vars == <<req, classification_cache, schema_cache, schema_cache_time, now,
          agents, refreshed, last_load, decided_for, prev, served>>

-----------------------------------------------------------------------------
(* Bounds of the model.                                                    *)

\* Capacity of the decision cache.  The source sets 100
\* (manager_agent.py:66); the model scales it down and treats it as a bound.
cache_max_size == 2

\* Schema cache TTL in clock ticks.  The source sets 300 seconds
\* (manager_agent.py:64); the model scales it down and treats it as a bound.
schema_cache_ttl == 2

\* The clock runs from 1 to MaxTime (time.time() is never 0 in the program, and
\* the source tests the timestamp for truthiness).
MaxTime == 4

\* Request slots that can be in flight at once in the concurrent specification.
NReq == 2

\* Requests submitted in all in the concurrent specification.
MaxServed == 4

Reqs == 1..NReq

-----------------------------------------------------------------------------
(* Texts.                                                                  *)

Whitespace == {" ", "\n"}

\* str.lower() on the model's alphabet.
lower(s) == [i \in DOMAIN s |-> IF s[i] = "A" THEN "a"
                                ELSE IF s[i] = "B" THEN "b" ELSE s[i]]

RECURSIVE lstrip(_)
lstrip(s) == IF s # <<>> /\ Head(s) \in Whitespace THEN lstrip(Tail(s)) ELSE s

RECURSIVE rstrip(_)
rstrip(s) == IF s # <<>> /\ s[Len(s)] \in Whitespace
             THEN rstrip(SubSeq(s, 1, Len(s) - 1)) ELSE s

\* str.strip()
strip(s) == rstrip(lstrip(s))

\* Python truthiness of a str.
Truthy(s) == s # <<>>

\* a or b, on strs.
Or(a, b) == IF Truthy(a) THEN a ELSE b

\* hashlib.md5(...).hexdigest(): a digest of the text; collisions are not modelled.
md5hex(s) == <<"md5", s>>

\* query_hash computed without lower().
QueryHash_NoLower(query) == md5hex(strip(query))

\* query_hash of _manager_node.
QueryHash(query) == md5hex(strip(lower(query)))

-----------------------------------------------------------------------------
(* dict, insertion-ordered: a sequence of [k, v] records without repeated keys. *)

DictHas(d, k) == \E i \in DOMAIN d : d[i].k = k

DictGet(d, k) == d[CHOOSE i \in DOMAIN d : d[i].k = k].v

\* d[k] = v : an existing key keeps its position, a new key goes last.
DictSet(d, k, v) ==
    IF DictHas(d, k)
    THEN [i \in DOMAIN d |-> IF d[i].k = k THEN [k |-> k, v |-> v] ELSE d[i]]
    ELSE Append(d, [k |-> k, v |-> v])

\* d.pop(k), for a key that is present.
DictPop(d, k) == SelectSeq(d, LAMBDA e : e.k # k)

\* next(iter(d)), for a non-empty dict.
DictFirstKey(d) == d[1].k


-----------------------------------------------------------------------------
(* Schema context: _load_table_schema.                                     *)

NoPdf == "None"

\* table_schema.json as the loader finds it: missing, not JSON, or a dict
\* table name -> {pdf_uuid, ...} (an empty dict when tables = {}).
Tables == { [name |-> "t1", pdf_uuid |-> "p1"], [name |-> "t2", pdf_uuid |-> "p2"] }

SchemaFiles ==
    { [state |-> "notfound", tables |-> {}], [state |-> "invalid", tables |-> {}] }
    \cup { [state |-> "ok", tables |-> T] : T \in SUBSET Tables }

\* cache_key = f"schema_{pdf_uuid or 'all'}"
SchemaCacheKey(pdf_uuid) == <<"schema_", IF pdf_uuid = NoPdf THEN "all" ELSE pdf_uuid>>

\* The readable schema text built for the LLM, one block per table.
SchemaInfo(tables) ==
    (IF \E t \in tables : t.name = "t1" THEN <<"Table: t1">> ELSE <<>>)
    \o (IF \E t \in tables : t.name = "t2" THEN <<"Table: t2">> ELSE <<>>)

\* The cache test at the head of _load_table_schema: one timestamp for the
\* whole cache, compared with the TTL, and the key present.
SchemaCacheFresh(sc, sct, t, key) ==
    /\ sc.is_dict /\ sc.d # <<>>
    /\ sct # <<>> /\ sct[1] # 0
    /\ t - sct[1] < schema_cache_ttl
    /\ DictHas(sc.d, key)

\* _load_table_schema(pdf_uuid) at time t with the schema file as given:
\* the text returned, the cache and its timestamp afterwards.
LoadTableSchema(sc, sct, t, pdf_uuid, file) ==
    LET key      == SchemaCacheKey(pdf_uuid)
        filtered == IF pdf_uuid # NoPdf
                    THEN {x \in file.tables : x.pdf_uuid = pdf_uuid}
                    ELSE file.tables
        same(txt) == [ret |-> txt, hit |-> FALSE, stored |-> FALSE,
                      cache |-> sc, time |-> sct]
    IN  IF SchemaCacheFresh(sc, sct, t, key)
        THEN [ret |-> DictGet(sc.d, key), hit |-> TRUE, stored |-> FALSE,
              cache |-> sc, time |-> sct]
        ELSE IF file.state = "notfound"
        THEN same(<<"Database schema not available - file not found">>)
        ELSE IF file.state = "invalid"
        THEN same(<<"Database schema not available - invalid JSON format">>)
        ELSE IF file.tables = {}
        THEN same(<<"Database schema not available - empty schema">>)
        ELSE IF filtered = {}
        THEN same(<<"No database schemas available for the current document (UUID: ",
                    pdf_uuid, ")">>)
        ELSE [ret |-> SchemaInfo(filtered), hit |-> FALSE, stored |-> TRUE,
              cache |-> [is_dict |-> TRUE,
                         d |-> DictSet(sc.d, key, SchemaInfo(filtered))],
              time |-> <<t>>]

-----------------------------------------------------------------------------
(* Decision Service response and its parsing in _manager_node.             *)

\* A field the JSON object does not have.
Missing == <<"<missing>">>

\* Sub-query texts the Decision Service may give.
SubQueryTexts == { <<>>, <<"s">> }

\* What json.loads finds in the cleaned content: text that is not JSON, JSON
\* that is not an object, or an object.  status "nonstring" stands for a
\* status that is not a str (null, a number).
Bodies ==
    { [kind |-> "malformed", status |-> "", rag |-> Missing, table |-> Missing],
      [kind |-> "nonobject", status |-> "", rag |-> Missing, table |-> Missing] }
    \cup { [kind |-> "object", status |-> st, rag |-> rq, table |-> tq] :
             st \in {"missing", "nonstring", "table", "rag", "both", "TABLE",
                     "BOTH", "other"},
             rq \in SubQueryTexts \cup {Missing},
             tq \in SubQueryTexts \cup {Missing} }

\* How the response wraps the body: bare, in a ```json fence, in a ``` fence,
\* or with prose around it.
Wraps == {"bare", "json_fence", "fence", "prose"}

Responses == [wrap : Wraps, body : Bodies]

\* The cleaning of response.content before json.loads: strip, drop the code
\* fence markers, else cut from the first "{" to the last "}".  Every wrap
\* leaves the body; text that holds no JSON stays unparsable.
CleanContent(resp) == resp.body

\* str.lower() on a status.
StatusLower(st) == IF st = "TABLE" THEN "table" ELSE IF st = "BOTH" THEN "both" ELSE st

\* dict.get(field, default)
Get(field, default) == IF field = Missing THEN default ELSE field

\* json.loads and the three result.get calls: ok = FALSE when an exception
\* is raised (JSONDecodeError, AttributeError on a non-dict or on a status
\* without lower()).
ParseDecision(resp) ==
    LET body == CleanContent(resp)
    IN  IF body.kind # "object" \/ body.status = "nonstring"
        THEN [ok |-> FALSE, decision |-> "", rag_sub_query |-> <<>>,
              table_sub_query |-> <<>>]
        ELSE [ok |-> TRUE,
              decision |-> IF body.status = "missing" THEN "rag"
                           ELSE StatusLower(body.status),
              rag_sub_query |-> Get(body.rag, <<>>),
              table_sub_query |-> Get(body.table, <<>>)]

\* cache_entry of _manager_node.
CacheEntry(decision, rag_sub_query, table_sub_query) ==
    [decision |-> decision, rag_sub_query |-> rag_sub_query,
     table_sub_query |-> table_sub_query, status |-> decision]

\* SetFlags without the "or state.query" defaults.
SetFlags_NoQueryDefault(st, decision, rag_sub_query, table_sub_query) ==
    IF decision = "table"
    THEN [st EXCEPT !.needs_table = TRUE, !.needs_rag = FALSE,
                    !.table_sub_query = table_sub_query, !.query_type = "table"]
    ELSE IF decision = "rag"
    THEN [st EXCEPT !.needs_table = FALSE, !.needs_rag = TRUE,
                    !.rag_sub_query = rag_sub_query, !.query_type = "rag"]
    ELSE IF decision = "both"
    THEN [st EXCEPT !.needs_table = TRUE, !.needs_rag = TRUE,
                    !.table_sub_query = table_sub_query,
                    !.rag_sub_query = rag_sub_query, !.query_type = "both"]
    ELSE [st EXCEPT !.needs_table = FALSE, !.needs_rag = TRUE,
                    !.rag_sub_query = st.query, !.query_type = "rag"]

\* "Set flags and sub-queries based on decision", on an AgentState st.
SetFlags(st, decision, rag_sub_query, table_sub_query) ==
    IF decision = "table"
    THEN [st EXCEPT !.needs_table = TRUE, !.needs_rag = FALSE,
                    !.table_sub_query = Or(table_sub_query, st.query),
                    !.query_type = "table"]
    ELSE IF decision = "rag"
    THEN [st EXCEPT !.needs_table = FALSE, !.needs_rag = TRUE,
                    !.rag_sub_query = Or(rag_sub_query, st.query),
                    !.query_type = "rag"]
    ELSE IF decision = "both"
    THEN [st EXCEPT !.needs_table = TRUE, !.needs_rag = TRUE,
                    !.table_sub_query = Or(table_sub_query, st.query),
                    !.rag_sub_query = Or(rag_sub_query, st.query),
                    !.query_type = "both"]
    ELSE [st EXCEPT !.needs_table = FALSE, !.needs_rag = TRUE,
                    !.rag_sub_query = st.query,
                    !.query_type = "rag"]

\* ErrorDefault that forgets to set the sub-query.
ErrorDefault_NoSubQuery(st) ==
    [st EXCEPT !.needs_table = FALSE, !.needs_rag = TRUE]

\* The except branch of _manager_node: default to RAG on error.
ErrorDefault(st) ==
    [st EXCEPT !.needs_table = FALSE, !.needs_rag = TRUE,
               !.rag_sub_query = st.query]

\* _decide_route with the two single routes swapped.
decide_route_Swapped(st) ==
    IF st.needs_table /\ st.needs_rag THEN "both"
    ELSE IF st.needs_table THEN "rag_only"
    ELSE IF st.needs_rag THEN "table_only"
    ELSE "end"

\* _decide_route that tests needs_table before it tests for both.
decide_route_TableBeforeBoth(st) ==
    IF st.needs_table THEN "table_only"
    ELSE IF st.needs_rag THEN "rag_only"
    ELSE "end"

\* _decide_route
decide_route(st) ==
    IF st.needs_table /\ st.needs_rag THEN "both"
    ELSE IF st.needs_table THEN "table_only"
    ELSE IF st.needs_rag THEN "rag_only"
    ELSE "end"

\* _after_table_route that always goes on to the knowledge node.
after_table_route_ToRag(st) == "to_rag"

\* _after_table_route
after_table_route(st) == IF st.needs_rag THEN "to_rag" ELSE "to_combiner"

\* The manager's edges with "both" sent to the knowledge node only.
ManagerEdges_BothToRag(route) ==
    CASE route = "table_only" -> "table"
      [] route = "rag_only"   -> "rag"
      [] route = "both"       -> "rag"
      [] route = "end"        -> "END"

\* The conditional edges of _create_workflow.
ManagerEdges(route) ==
    CASE route = "table_only" -> "table"
      [] route = "rag_only"   -> "rag"
      [] route = "both"       -> "parallel"
      [] route = "end"        -> "END"

TableEdges(route) ==
    CASE route = "to_rag"      -> "rag"
      [] route = "to_combiner" -> "combiner"
      [] route = "end"         -> "END"

-----------------------------------------------------------------------------
(* The decision cache update of _manager_node.                             *)

\* The size test off by one.
CacheTooBig_OffByOne(d) == Len(d) > cache_max_size + 1

\* len(self._classification_cache) > self._cache_max_size
CacheTooBig(d) == Len(d) > cache_max_size

\* The key inserted last instead of the key inserted first.
OldestKey_Newest(d) == d[Len(d)].k

\* next(iter(self._classification_cache))
OldestKey(d) == DictFirstKey(d)

\* "Store in cache" and "Limit cache size", run without interruption.
StoreDecision(d, query_hash, entry) ==
    LET d1 == DictSet(d, query_hash, entry)
    IN  IF CacheTooBig(d1) THEN DictPop(d1, OldestKey(d1)) ELSE d1

\* A hit that moves its entry to the end of the dict.
CacheAfterHit_MoveToEnd(d, query_hash) ==
    Append(DictPop(d, query_hash), [k |-> query_hash, v |-> DictGet(d, query_hash)])

\* The cache after the if branch of _manager_node (a cache hit): the entry
\* is read and nothing is written.
CacheAfterHit(d, query_hash) == d

\* The cache written whatever the parse gave.
CacheAfterMiss_StoreAlways(d, query_hash, p) ==
    StoreDecision(d, query_hash,
                  CacheEntry(p.decision, p.rag_sub_query, p.table_sub_query))

\* The cache after the else branch of _manager_node (a cache miss): the
\* store is reached only when the call and the parsing raised nothing.
CacheAfterMiss(d, query_hash, p) ==
    IF p.ok
    THEN StoreDecision(d, query_hash,
                       CacheEntry(p.decision, p.rag_sub_query, p.table_sub_query))
    ELSE d

-----------------------------------------------------------------------------
(* The service calls of the nodes.                                         *)

\* An outcome of a call: a returned text, a returned dict without the
\* expected key, or an exception.
Returned(text) == [kind |-> "text", text |-> text]
NoAnswerKey    == [kind |-> "nokey", text |-> <<>>]
Raised         == [kind |-> "raise", text |-> <<>>]

\* The message of the exception an LLM call raises when the API quota is
\* used up, and that exception as an outcome.
QuotaMessage == <<"429", " ", "quota", " ", "exceeded">>
RaisedQuota  == [kind |-> "raise", text |-> QuotaMessage]

\* The message of the exception executor.submit raises when no thread can
\* be started.
ThreadMessage == <<"can't", " ", "start", " ", "new", " ", "thread">>

\* The Decision Service call raising it.
QuotaBody ==
    [kind |-> "raised", status |-> "quota", rag |-> <<"<missing>">>,
     table |-> <<"<missing>">>]

\* History: the outcome is an LLM call that failed on the quota ("nosql" is
\* _generate_sql_query catching the failure of its LLM call).
QuotaFailure(out) == out.kind \in {"raise", "nosql"} /\ out.text = QuotaMessage

\* The test of process_query's except branch on str(e).lower().
IsQuotaError(msg) ==
    \E i \in DOMAIN msg : lower(<<msg[i]>>)[1] \in {"quota", "429", "resourceexhausted"}

\* The except branch reporting success.
ProcessQueryResult_ExceptSucceeds(st, exc) ==
    [answer |-> st.response, success |-> TRUE, error |-> "None",
     query_type |-> st.query_type, used_table |-> st.needs_table,
     used_rag |-> st.needs_rag]

\* What process_query returns: exc is <<>> when workflow.invoke returned and
\* holds the exception's message when it raised.
ProcessQueryResult(st, exc) ==
    IF exc = <<>>
    THEN [answer |-> st.response, success |-> TRUE, error |-> "None",
          query_type |-> st.query_type, used_table |-> st.needs_table,
          used_rag |-> st.needs_rag]
    ELSE IF IsQuotaError(exc[1])
    THEN [answer |-> <<"GEMINI API QUOTA EXCEEDED">>, success |-> FALSE,
          error |-> "QUOTA_EXCEEDED", query_type |-> "", used_table |-> FALSE,
          used_rag |-> FALSE]
    ELSE [answer |-> <<"I encountered an error while processing your question. Please try again.">>,
          success |-> FALSE, error |-> "str(e)", query_type |-> "",
          used_table |-> FALSE, used_rag |-> FALSE]

\* An outcome of TableAgent.process_query by the path it took; text is the
\* data the database returned on the paths that format it.
TableAgentOutcome(kind, data) == [kind |-> kind, text |-> data]

\* The text TableAgent.process_query returns for query q.  Every path returns
\* a fixed lead followed by the query or by the data, which is not trimmed at
\* its end; an exception inside is caught and turned into a text.
TableAgentText(out, q) ==
    IF out.kind = "noschema" THEN <<"Error: Could not load schema for query: ">> \o q
    ELSE IF out.kind = "nosql" THEN <<"Unable to process data query: ">> \o q
    ELSE IF out.kind = "value" THEN <<"The answer is: ">> \o out.text
    ELSE IF out.kind = "rows" THEN <<"* ">> \o out.text
    ELSE IF out.kind = "noresults" THEN <<"No results found for query: ">> \o q
    ELSE IF out.kind = "dberror"
    THEN <<"Database error while processing query: ">> \o q
    ELSE IF out.kind = "error" THEN <<"Error processing query: ">> \o q
    ELSE IF out.kind = "notables"
    THEN <<"No tables found for the current document (UUID: ">> \o out.text
         \o <<"). Please upload a PDF first.">>
    ELSE out.text

\* TableAgent._load_schema: the tables of table_schema.json, none when the
\* file is missing or is not JSON.
TableAgentSchema(file) == IF file.state = "ok" THEN file.tables ELSE {}

\* filtered_schema of TableAgent.process_query, the tables handed to
\* _generate_sql_query: all tables without a pdf_uuid; with one, the tables
\* of that document, or all tables when it has none and some table carries a
\* pdf_uuid; {} when the method returns before SQL generation.
TableAgentOffered(file, pdf_uuid) ==
    LET schema   == TableAgentSchema(file)
        filtered == {t \in schema : t.pdf_uuid = pdf_uuid}
    IN  IF pdf_uuid = NoPdf THEN schema
        ELSE IF filtered # {} THEN filtered
        ELSE IF \E t \in schema : t.pdf_uuid # NoPdf THEN schema
        ELSE {}

\* The outcome of TableAgent.process_query given the schema file: the
\* returns that come before SQL generation, else the outcome out of SQL
\* generation and execution.
TableAgentOutcomeWith(file, pdf_uuid, out) ==
    IF out.kind = "raise" THEN out
    ELSE IF TableAgentSchema(file) = {} THEN TableAgentOutcome("noschema", <<>>)
    ELSE IF TableAgentOffered(file, pdf_uuid) = {}
    THEN TableAgentOutcome("notables", <<pdf_uuid>>)
    ELSE out

\* History: the tables handed to SQL generation, when it was reached.
OfferedTables(has_agent, file, pdf_uuid, out) ==
    IF has_agent /\ TableAgentOutcomeWith(file, pdf_uuid, out).kind
                       \notin {"raise", "noschema", "notables"}
    THEN <<TableAgentOffered(file, pdf_uuid)>> ELSE <<>>

\* History: the text a service handed back, <<>> when it was not called or
\* handed back none.
TableReturned(has_agent, out, q) ==
    IF has_agent /\ out.kind # "raise" THEN <<TableAgentText(out, q)>> ELSE <<>>

RagReturned(has_agent, out) ==
    IF has_agent /\ out.kind = "text" THEN <<out.text>> ELSE <<>>

\* query_to_use of the nodes: the sub-query, or the query when it is empty.
TableQueryToUse(st) == Or(st.table_sub_query, st.query)
RagQueryToUse(st)   == Or(st.rag_sub_query, st.query)

\* table_response of _table_node.
TableNodeResponse(has_agent, out, q) ==
    IF ~has_agent THEN <<"Error: Table processing unavailable for query: ">> \o q
    ELSE IF out.kind = "raise" THEN <<"Error processing data query: ">> \o q
    ELSE TableAgentText(out, q)

\* rag_response of _rag_node.
RagNodeResponse(has_agent, out, q) ==
    IF ~has_agent THEN <<"RAG processing: ">> \o q
    ELSE IF out.kind = "raise" THEN <<"RAG processing error: ">> \o q
    ELSE IF out.kind = "nokey" THEN <<"RAG processing: ">> \o q
    ELSE out.text

\* run_table of _parallel_node.
RunTable(has_agent, out, q) ==
    IF ~has_agent THEN <<"Table processing: ">> \o q
    ELSE IF out.kind = "raise" THEN <<"Table processing error: ">> \o q
    ELSE TableAgentText(out, q)

\* run_rag with nothing returned when the call raises.
RunRag_NoErrorText(has_agent, out, q) ==
    IF has_agent /\ out.kind = "text" THEN out.text ELSE <<>>

\* run_rag of _parallel_node.
RunRag(has_agent, out, q) ==
    IF ~has_agent THEN <<"RAG processing: ">> \o q
    ELSE IF out.kind = "raise" THEN <<"RAG processing error: ">> \o q
    ELSE IF out.kind = "nokey" THEN <<"RAG processing: ">> \o q
    ELSE out.text

-----------------------------------------------------------------------------
(* CombinerAgent.                                                          *)

Apology == <<"I apologize, but I wasn't able to generate a response to your query. Please try rephrasing your question.">>

\* The single response returned whatever it holds.
format_single_response_NoBlankTest(response, source_type) == response

\* The single response returned trimmed.
format_single_response_Trimmed(response, source_type) ==
    IF Truthy(strip(response)) THEN strip(response)
    ELSE <<"No information available from ", source_type, " for your query.">>

\* _format_single_response
format_single_response(response, source_type) ==
    IF Truthy(strip(response)) THEN response
    ELSE <<"No information available from ", source_type, " for your query.">>

\* The data text first.
simple_combination_TableFirst(table_response, rag_response) ==
    strip(table_response) \o <<"\n", "\n">> \o strip(rag_response)

\* _simple_combination: the knowledge text, a blank line, the data text.
simple_combination(table_response, rag_response) ==
    LET r == IF Truthy(rag_response) /\ Truthy(strip(rag_response))
             THEN <<strip(rag_response)>> ELSE <<>>
        t == IF Truthy(table_response) /\ Truthy(strip(table_response))
             THEN <<strip(table_response)>> ELSE <<>>
        parts == r \o t
    IN  IF Len(parts) = 2 THEN parts[1] \o <<"\n", "\n">> \o parts[2]
        ELSE IF Len(parts) = 1 THEN parts[1]
        ELSE <<"No response could be generated for your query.">>

\* _create_intelligent_combination: the LLM's text stripped, or the simple
\* combination when the call raises.
create_intelligent_combination(table_response, rag_response, synth) ==
    IF synth.kind = "text" THEN strip(synth.text)
    ELSE simple_combination(table_response, rag_response)

\* The LLM called whenever a response is there.
SynthesisCalled_Any(table_response, rag_response) ==
    Truthy(table_response) \/ Truthy(rag_response)

\* Whether combine_responses calls the LLM.
SynthesisCalled(table_response, rag_response) ==
    Truthy(table_response) /\ Truthy(rag_response)

\* combine_responses that asks the LLM also when no response is there.
combine_responses_SynthesisForNone(table_response, rag_response, synth) ==
    IF Truthy(table_response) /\ ~Truthy(rag_response)
    THEN format_single_response(table_response, "data analysis")
    ELSE IF Truthy(rag_response) /\ ~Truthy(table_response)
    THEN format_single_response(rag_response, "knowledge base")
    ELSE create_intelligent_combination(table_response, rag_response, synth)

\* combine_responses (None and "" are both falsy; the node passes None for "").
combine_responses(table_response, rag_response, synth) ==
    IF Truthy(table_response) /\ ~Truthy(rag_response)
    THEN format_single_response(table_response, "data analysis")
    ELSE IF Truthy(rag_response) /\ ~Truthy(table_response)
    THEN format_single_response(rag_response, "knowledge base")
    ELSE IF Truthy(table_response) /\ Truthy(rag_response)
    THEN create_intelligent_combination(table_response, rag_response, synth)
    ELSE Apology

\* combined_response of _combiner_node.
CombinerNodeResponse(has_agent, st, synth) ==
    IF has_agent
    THEN combine_responses(st.table_response, st.rag_response, synth)
    ELSE IF Truthy(st.table_response) /\ Truthy(st.rag_response)
    THEN st.rag_response \o <<"\n", "\n">> \o st.table_response
    ELSE IF Truthy(st.table_response) THEN st.table_response
    ELSE IF Truthy(st.rag_response) THEN st.rag_response
    ELSE <<"No response generated">>

-----------------------------------------------------------------------------
(* Requests.                                                               *)

\* AgentState as process_query creates it, with the request's position in
\* the workflow, the locals of _manager_node and _parallel_node, and history.
InitReq ==
    [ pc              |-> "idle",
      query           |-> <<>>,
      pdf_uuid        |-> NoPdf,
      response        |-> <<>>,
      needs_table     |-> FALSE,
      needs_rag       |-> FALSE,
      table_response  |-> <<>>,
      rag_response    |-> <<>>,
      table_sub_query |-> <<>>,
      rag_sub_query   |-> <<>>,
      query_type      |-> "unknown",
      \* locals of _manager_node between its steps
      decision        |-> "",
      l_rag           |-> <<>>,
      l_table         |-> <<>>,
      evict_key       |-> <<>>,
      \* the two futures of _parallel_node
      table_future    |-> "none",
      rag_future      |-> "none",
      table_result    |-> <<>>,
      rag_result      |-> <<>>,
      \* what process_query returns
      result          |-> [answer |-> <<>>, success |-> FALSE, error |-> "",
                           query_type |-> "", used_table |-> FALSE,
                           used_rag |-> FALSE],
      \* history
      raw             |-> <<>>,
      trace           |-> <<>>,
      cls             |-> "none",
      status_seen     |-> "none",
      body            |-> [kind |-> "none", status |-> "", rag |-> <<"<missing>">>,
                           table |-> <<"<missing>">>],
      evicted         |-> <<>>,
      decision_calls  |-> 0,
      table_calls     |-> 0,
      rag_calls       |-> 0,
      synth_calls     |-> 0,
      table_ret       |-> <<>>,
      rag_ret         |-> <<>>,
      synth_ret       |-> <<>>,
      first_done      |-> "none",
      table_kind      |-> "none",
      rag_kind        |-> "none",
      quota           |-> {},
      fault           |-> FALSE,
      served_for      |-> <<>>,
      offered         |-> <<>> ]

NoPrev == [valid |-> FALSE, raw |-> <<>>, cls |-> "none"]

NoLoad == [key |-> <<>>, hit |-> FALSE, age |-> 0]

Idle(r) == req[r].pc = "idle"

\* The history of a _load_table_schema call at time t.
LoadHistory(ld, pdf_uuid, t) ==
    LET key == SchemaCacheKey(pdf_uuid)
    IN  [key |-> key, hit |-> ld.hit,
         age |-> IF ld.hit /\ DictHas(refreshed, key)
                 THEN t - DictGet(refreshed, key) ELSE 0]

\* History of the decision cache d after a request with scope pdf_uuid
\* stored the entry of query_hash: the scope is recorded, and the record of
\* an evicted entry goes with it.
RecordDecision(df, d, query_hash, pdf_uuid) ==
    SelectSeq(DictSet(df, query_hash, pdf_uuid), LAMBDA e : DictHas(d, e.k))

\* History: the scope the entry of query_hash was decided for.
DecidedFor(df, query_hash) ==
    IF DictHas(df, query_hash) THEN <<DictGet(df, query_hash)>> ELSE <<>>

RefreshedAfter(ld, pdf_uuid, t) ==
    IF ld.stored THEN DictSet(refreshed, SchemaCacheKey(pdf_uuid), t) ELSE refreshed

-----------------------------------------------------------------------------
(* Actions.  E is the environment a specification draws inputs from:       *)
(* raws, pdfs, files, responses, table_out, rag_out, synth_out.            *)

\* POST /answer (chat.py answer_question): strip the query, refuse an empty
\* one with HTTP 400, else hand it to process_query, which creates the
\* AgentState and enters the workflow at "manager".
answer_question(r, E) ==
    /\ Idle(r)
    /\ \E raw \in E.raws, pdf \in E.pdfs :
         LET query == strip(raw)
         IN  req' = [req EXCEPT ![r] =
                IF ~Truthy(query)
                THEN [InitReq EXCEPT !.pc = "rejected", !.raw = raw]
                ELSE [InitReq EXCEPT !.pc = "manager", !.raw = raw,
                                     !.query = query, !.pdf_uuid = pdf]]
    /\ UNCHANGED <<classification_cache, schema_cache, schema_cache_time, now,
                   agents, refreshed, last_load, decided_for, prev>>

\* The HTTP 400 response is sent.
Rejected(r) ==
    /\ req[r].pc = "rejected"
    /\ req' = [req EXCEPT ![r] = InitReq]
    /\ UNCHANGED <<classification_cache, schema_cache, schema_cache_time, now,
                   agents, refreshed, last_load, decided_for, prev, served>>

\* _manager_node, run without interruption, followed by the conditional
\* edge _decide_route.
ManagerNode(r, E) ==
    /\ req[r].pc = "manager"
    /\ \E file \in E.files, resp \in E.responses :
         LET st   == req[r]
             ld   == LoadTableSchema(schema_cache, schema_cache_time, now,
                                     st.pdf_uuid, file)
             h    == QueryHash(st.query)
             hit  == DictHas(classification_cache, h)
             c    == DictGet(classification_cache, h)
             p    == ParseDecision(resp)
             e    == CacheEntry(p.decision, p.rag_sub_query, p.table_sub_query)
             d1   == DictSet(classification_cache, h, e)
             st1  == IF hit
                     THEN SetFlags(st, c.decision, c.rag_sub_query, c.table_sub_query)
                     ELSE IF p.ok
                     THEN SetFlags(st, p.decision, p.rag_sub_query, p.table_sub_query)
                     ELSE ErrorDefault(st)
             c1   == IF hit THEN CacheAfterHit(classification_cache, h)
                     ELSE CacheAfterMiss(classification_cache, h, p)
         IN  /\ classification_cache' = c1
             /\ decided_for' = IF ~hit /\ p.ok
                               THEN RecordDecision(decided_for, c1, h, st.pdf_uuid)
                               ELSE decided_for
             /\ schema_cache' = ld.cache
             /\ schema_cache_time' = ld.time
             /\ last_load' = LoadHistory(ld, st.pdf_uuid, now)
             /\ refreshed' = RefreshedAfter(ld, st.pdf_uuid, now)
             /\ req' = [req EXCEPT ![r] =
                  [st1 EXCEPT
                     !.pc = ManagerEdges(decide_route(st1)),
                     !.trace = Append(st.trace, "manager"),
                     !.cls = IF hit THEN "hit" ELSE IF p.ok THEN "parsed" ELSE "failed",
                     !.status_seen = IF hit THEN c.decision
                                     ELSE IF p.ok THEN p.decision ELSE "none",
                     !.body = IF hit THEN @ ELSE CleanContent(resp),
                     !.quota = IF ~hit /\ CleanContent(resp) = QuotaBody
                               THEN {"decision"} ELSE {},
                     !.evicted = IF ~hit /\ p.ok /\ CacheTooBig(d1)
                                 THEN <<OldestKey(d1)>> ELSE <<>>,
                     !.served_for = IF hit THEN DecidedFor(decided_for, h) ELSE <<>>,
                     !.decision_calls = IF hit THEN 0 ELSE 1]]
    /\ UNCHANGED <<now, agents, prev, served>>

\* _table_node, followed by the conditional edge _after_table_route.
TableNode(r, E) ==
    /\ req[r].pc = "table"
    /\ \E file \in E.files, sql \in E.table_out :
         LET st  == req[r]
             q   == TableQueryToUse(st)
             out == TableAgentOutcomeWith(file, st.pdf_uuid, sql)
         IN  req' = [req EXCEPT ![r] =
                [st EXCEPT
                   !.table_response = TableNodeResponse(agents.table_agent, out, q),
                   !.offered = OfferedTables(agents.table_agent, file, st.pdf_uuid, sql),
                   !.table_calls = IF agents.table_agent THEN @ + 1 ELSE @,
                   !.quota = IF agents.table_agent /\ QuotaFailure(out)
                            THEN @ \cup {"sql"} ELSE @,
                   !.table_kind = IF agents.table_agent THEN out.kind ELSE "none",
                   !.table_ret = TableReturned(agents.table_agent, out, q),
                   !.trace = Append(@, "table"),
                   !.pc = TableEdges(after_table_route(st))]]
    /\ UNCHANGED <<classification_cache, schema_cache, schema_cache_time, now,
                   agents, refreshed, last_load, decided_for, prev, served>>

\* _rag_node, followed by the edge to "combiner".
RagNode(r, E) ==
    /\ req[r].pc = "rag"
    /\ \E out \in E.rag_out :
         LET st == req[r]
             q  == RagQueryToUse(st)
         IN  req' = [req EXCEPT ![r] =
                [st EXCEPT
                   !.rag_response = RagNodeResponse(agents.chatbot_agent, out, q),
                   !.rag_calls = IF agents.chatbot_agent THEN @ + 1 ELSE @,
                   !.rag_kind = IF agents.chatbot_agent THEN out.kind ELSE "none",
                   !.rag_ret = RagReturned(agents.chatbot_agent, out),
                   !.trace = Append(@, "rag"),
                   !.pc = "combiner"]]
    /\ UNCHANGED <<classification_cache, schema_cache, schema_cache_time, now,
                   agents, refreshed, last_load, decided_for, prev, served>>

\* Only run_table is submitted before the node waits.
ParallelSubmit_OnlyTable(r) ==
    /\ req[r].pc = "parallel"
    /\ req' = [req EXCEPT ![r] =
          [@ EXCEPT !.pc = "parallel_wait",
                    !.table_future = "running",
                    !.trace = Append(@, "parallel")]]
    /\ UNCHANGED <<classification_cache, schema_cache, schema_cache_time, now,
                   agents, refreshed, last_load, decided_for, prev, served>>

\* _parallel_node: both tasks are submitted to the executor.
ParallelSubmit(r) ==
    /\ req[r].pc = "parallel"
    /\ req' = [req EXCEPT ![r] =
          [@ EXCEPT !.pc = "parallel_wait",
                    !.table_future = "running", !.rag_future = "running",
                    !.trace = Append(@, "parallel")]]
    /\ UNCHANGED <<classification_cache, schema_cache, schema_cache_time, now,
                   agents, refreshed, last_load, decided_for, prev, served>>

\* run_table finishes in its worker thread.
RunTableDone(r, E) ==
    /\ req[r].pc = "parallel_wait"
    /\ req[r].table_future = "running"
    /\ \E file \in E.files, sql \in E.table_out :
         LET st  == req[r]
             out == TableAgentOutcomeWith(file, st.pdf_uuid, sql)
         IN  req' = [req EXCEPT ![r] =
                [st EXCEPT
                   !.table_future = "done",
                   !.offered = OfferedTables(agents.table_agent, file, st.pdf_uuid, sql),
                   !.table_result = RunTable(agents.table_agent, out, TableQueryToUse(st)),
                   !.table_calls = IF agents.table_agent THEN @ + 1 ELSE @,
                   !.quota = IF agents.table_agent /\ QuotaFailure(out)
                            THEN @ \cup {"sql"} ELSE @,
                   !.table_kind = IF agents.table_agent THEN out.kind ELSE "none",
                   !.table_ret = TableReturned(agents.table_agent, out,
                                               TableQueryToUse(st)),
                   !.first_done = IF @ = "none" THEN "table" ELSE @]]
    /\ UNCHANGED <<classification_cache, schema_cache, schema_cache_time, now,
                   agents, refreshed, last_load, decided_for, prev, served>>

\* run_rag finishes in its worker thread.
RunRagDone(r, E) ==
    /\ req[r].pc = "parallel_wait"
    /\ req[r].rag_future = "running"
    /\ \E out \in E.rag_out :
         LET st == req[r]
         IN  req' = [req EXCEPT ![r] =
                [st EXCEPT
                   !.rag_future = "done",
                   !.rag_result = RunRag(agents.chatbot_agent, out, RagQueryToUse(st)),
                   !.rag_calls = IF agents.chatbot_agent THEN @ + 1 ELSE @,
                   !.rag_kind = IF agents.chatbot_agent THEN out.kind ELSE "none",
                   !.rag_ret = RagReturned(agents.chatbot_agent, out),
                   !.first_done = IF @ = "none" THEN "rag" ELSE @]]
    /\ UNCHANGED <<classification_cache, schema_cache, schema_cache_time, now,
                   agents, refreshed, last_load, decided_for, prev, served>>

\* The results taken in the order the branches finished.
ParallelJoin_ByCompletion(r) ==
    /\ req[r].pc = "parallel_wait"
    /\ req[r].table_future = "done"
    /\ req[r].rag_future = "done"
    /\ req' = [req EXCEPT ![r] =
          [@ EXCEPT !.pc = "combiner",
                    !.table_response = IF req[r].first_done = "table"
                                       THEN req[r].table_result ELSE req[r].rag_result,
                    !.rag_response = IF req[r].first_done = "table"
                                     THEN req[r].rag_result ELSE req[r].table_result]]
    /\ UNCHANGED <<classification_cache, schema_cache, schema_cache_time, now,
                   agents, refreshed, last_load, decided_for, prev, served>>

\* table_future.result() and rag_future.result() return, the executor is
\* shut down, and the edge to "combiner" is taken.
ParallelJoin(r) ==
    /\ req[r].pc = "parallel_wait"
    /\ req[r].table_future = "done"
    /\ req[r].rag_future = "done"
    /\ req' = [req EXCEPT ![r] =
          [@ EXCEPT !.pc = "combiner",
                    !.table_response = req[r].table_result,
                    !.rag_response = req[r].rag_result]]
    /\ UNCHANGED <<classification_cache, schema_cache, schema_cache_time, now,
                   agents, refreshed, last_load, decided_for, prev, served>>

\* _combiner_node, followed by the edge to END.
CombinerNode(r, E) ==
    /\ req[r].pc = "combiner"
    /\ \E synth \in E.synth_out :
         LET st == req[r]
         IN  req' = [req EXCEPT ![r] =
                [st EXCEPT
                   !.response = CombinerNodeResponse(agents.combiner_agent, st, synth),
                   !.synth_calls =
                       IF agents.combiner_agent
                          /\ SynthesisCalled(st.table_response, st.rag_response)
                       THEN @ + 1 ELSE @,
                   !.quota =
                       IF agents.combiner_agent /\ QuotaFailure(synth)
                          /\ SynthesisCalled(st.table_response, st.rag_response)
                       THEN @ \cup {"synthesis"} ELSE @,
                   !.synth_ret =
                       IF agents.combiner_agent /\ synth.kind = "text"
                          /\ SynthesisCalled(st.table_response, st.rag_response)
                       THEN <<synth.text>> ELSE <<>>,
                   !.trace = Append(@, "combiner"),
                   !.pc = "END"]]
    /\ UNCHANGED <<classification_cache, schema_cache, schema_cache_time, now,
                   agents, refreshed, last_load, decided_for, prev, served>>

\* workflow.invoke returns and process_query builds its result.
ProcessQueryReturn(r) ==
    /\ req[r].pc = "END"
    /\ req' = [req EXCEPT ![r] =
          [@ EXCEPT !.pc = "done",
                    !.result = ProcessQueryResult(req[r], <<>>)]]
    /\ UNCHANGED <<classification_cache, schema_cache, schema_cache_time, now,
                   agents, refreshed, last_load, decided_for, prev, served>>

\* executor.submit raises in _parallel_node (RuntimeError: can't start new
\* thread): the node has no try around it, the exception leaves
\* workflow.invoke and the except branch of process_query builds the result.
ExecutorFails(r) ==
    /\ req[r].pc = "parallel"
    /\ req' = [req EXCEPT ![r] =
          [@ EXCEPT !.pc = "done",
                    !.fault = TRUE,
                    !.trace = Append(@, "parallel"),
                    !.result = ProcessQueryResult(req[r], <<ThreadMessage>>)]]
    /\ UNCHANGED <<classification_cache, schema_cache, schema_cache_time, now,
                   agents, refreshed, last_load, decided_for, prev, served>>

\* The endpoint sends the response; the AgentState is discarded.
Respond(r) ==
    /\ req[r].pc = "done"
    /\ req' = [req EXCEPT ![r] = InitReq]
    /\ UNCHANGED <<classification_cache, schema_cache, schema_cache_time, now,
                   agents, refreshed, last_load, decided_for, served>>

\* The clock advances.
Tick ==
    /\ now < MaxTime
    /\ now' = now + 1
    /\ UNCHANGED <<req, classification_cache, schema_cache, schema_cache_time,
                   agents, refreshed, last_load, decided_for, prev, served>>

-----------------------------------------------------------------------------
(* _manager_node step by step, for requests that run in different threads: *)
(* a thread switch can fall between any two of these steps.                *)

\* The request leaves _manager_node with the flags set from a decision.
Routed(st, decision, rag_sub_query, table_sub_query) ==
    LET st1 == SetFlags(st, decision, rag_sub_query, table_sub_query)
    IN  [st1 EXCEPT !.pc = ManagerEdges(decide_route(st1)),
                    !.decision = "", !.l_rag = <<>>, !.l_table = <<>>]

\* The request leaves _manager_node through the except branch.
RoutedOnError(st) ==
    LET st1 == ErrorDefault(st)
    IN  [st1 EXCEPT !.pc = ManagerEdges(decide_route(st1)),
                    !.decision = "", !.l_rag = <<>>, !.l_table = <<>>]

\* _load_table_schema and the test "query_hash in self._classification_cache".
ManagerProbe(r, E) ==
    /\ req[r].pc = "manager"
    /\ \E file \in E.files :
         LET st == req[r]
             ld == LoadTableSchema(schema_cache, schema_cache_time, now,
                                   st.pdf_uuid, file)
         IN  /\ schema_cache' = ld.cache
             /\ schema_cache_time' = ld.time
             /\ last_load' = LoadHistory(ld, st.pdf_uuid, now)
             /\ refreshed' = RefreshedAfter(ld, st.pdf_uuid, now)
             /\ req' = [req EXCEPT ![r] =
                  [st EXCEPT
                     !.pc = IF DictHas(classification_cache, QueryHash(st.query))
                            THEN "m_hit" ELSE "m_llm",
                     !.trace = Append(@, "manager")]]
    /\ UNCHANGED <<classification_cache, now, agents, decided_for, prev, served>>

\* cached_result = self._classification_cache[query_hash]; a KeyError when the
\* entry was evicted since the test.
ManagerHitRead(r) ==
    /\ req[r].pc = "m_hit"
    /\ LET st == req[r]
           h  == QueryHash(st.query)
           c  == DictGet(classification_cache, h)
       IN  req' = [req EXCEPT ![r] =
              IF DictHas(classification_cache, h)
              THEN [Routed(st, c.decision, c.rag_sub_query, c.table_sub_query)
                      EXCEPT !.cls = "hit", !.status_seen = c.decision,
                             !.served_for = DecidedFor(decided_for, h)]
              ELSE [RoutedOnError(st) EXCEPT !.cls = "failed"]]
    /\ UNCHANGED <<classification_cache, schema_cache, schema_cache_time, now,
                   agents, refreshed, last_load, decided_for, prev, served>>

\* self.llm.invoke and the parsing of its response.
ManagerInvoke(r, E) ==
    /\ req[r].pc = "m_llm"
    /\ \E resp \in E.responses :
         LET st == req[r]
             p  == ParseDecision(resp)
         IN  req' = [req EXCEPT ![r] =
                IF p.ok
                THEN [st EXCEPT !.pc = "m_store", !.decision = p.decision,
                                !.l_rag = p.rag_sub_query,
                                !.l_table = p.table_sub_query,
                                !.cls = "parsed", !.status_seen = p.decision,
                                !.body = CleanContent(resp),
                                !.decision_calls = 1]
                ELSE [RoutedOnError(st) EXCEPT !.cls = "failed",
                                               !.body = CleanContent(resp),
                                               !.quota = IF CleanContent(resp) = QuotaBody
                                                         THEN {"decision"} ELSE {},
                                               !.decision_calls = 1]]
    /\ UNCHANGED <<classification_cache, schema_cache, schema_cache_time, now,
                   agents, refreshed, last_load, decided_for, prev, served>>

\* self._classification_cache[query_hash] = cache_entry
ManagerStore(r) ==
    /\ req[r].pc = "m_store"
    /\ LET st == req[r]
           c1 == DictSet(classification_cache, QueryHash(st.query),
                         CacheEntry(st.decision, st.l_rag, st.l_table))
       IN  /\ classification_cache' = c1
           /\ decided_for' = RecordDecision(decided_for, c1, QueryHash(st.query),
                                            st.pdf_uuid)
           /\ req' = [req EXCEPT ![r].pc = "m_len"]
    /\ UNCHANGED <<schema_cache, schema_cache_time, now, agents, refreshed,
                   last_load, prev, served>>

\* if len(self._classification_cache) > self._cache_max_size
ManagerLen(r) ==
    /\ req[r].pc = "m_len"
    /\ LET st == req[r]
       IN  req' = [req EXCEPT ![r] =
              IF CacheTooBig(classification_cache)
              THEN [st EXCEPT !.pc = "m_first"]
              ELSE Routed(st, st.decision, st.l_rag, st.l_table)]
    /\ UNCHANGED <<classification_cache, schema_cache, schema_cache_time, now,
                   agents, refreshed, last_load, decided_for, prev, served>>

\* next(iter(self._classification_cache)); StopIteration on an empty dict.
ManagerFirst(r) ==
    /\ req[r].pc = "m_first"
    /\ LET st == req[r]
       IN  req' = [req EXCEPT ![r] =
              IF classification_cache = <<>>
              THEN [RoutedOnError(st) EXCEPT !.cls = "failed"]
              ELSE [st EXCEPT !.pc = "m_pop",
                              !.evict_key = <<OldestKey(classification_cache)>>]]
    /\ UNCHANGED <<classification_cache, schema_cache, schema_cache_time, now,
                   agents, refreshed, last_load, decided_for, prev, served>>

\* self._classification_cache.pop(key); a KeyError when another request popped
\* the same key first.
ManagerPop(r) ==
    /\ req[r].pc = "m_pop"
    /\ LET st  == req[r]
           key == st.evict_key[1]
       IN  IF DictHas(classification_cache, key)
           THEN /\ classification_cache' = DictPop(classification_cache, key)
                /\ decided_for' = DictPop(decided_for, key)
                /\ req' = [req EXCEPT ![r] =
                     [Routed(st, st.decision, st.l_rag, st.l_table)
                        EXCEPT !.evicted = <<key>>, !.evict_key = <<>>]]
           ELSE /\ classification_cache' = classification_cache
                /\ decided_for' = decided_for
                /\ req' = [req EXCEPT ![r] =
                     [RoutedOnError(st) EXCEPT !.cls = "failed", !.evict_key = <<>>]]
    /\ UNCHANGED <<schema_cache, schema_cache_time, now, agents, refreshed,
                   last_load, prev, served>>

-----------------------------------------------------------------------------
(* Environments and specifications.                                        *)

AgentConfigs == [table_agent : BOOLEAN, chatbot_agent : BOOLEAN,
                 combiner_agent : BOOLEAN]

AllAgents == [table_agent |-> TRUE, chatbot_agent |-> TRUE, combiner_agent |-> TRUE]

\* The state after ManagerAgent.__init__: both caches empty; each of the
\* three agents is set, or None when its construction failed (chatbot_agent
\* also when none was passed).
InitWith(configs) ==
    /\ req = [r \in Reqs |-> InitReq]
    /\ classification_cache = <<>>
    /\ schema_cache = [is_dict |-> FALSE, d |-> <<>>]
    /\ schema_cache_time = <<>>
    /\ now = 1
    /\ agents \in configs
    /\ refreshed = <<>>
    /\ last_load = NoLoad
    /\ decided_for = <<>>
    /\ prev = NoPrev
    /\ served = 0

OneFile == { [state |-> "ok", tables |-> {[name |-> "t1", pdf_uuid |-> "p1"]}] }

\* The workflow of one request at a time, with every kind of Decision
\* Service response and every outcome of the services, over one query key.
FlowEnv ==
    [ raws      |-> { <<" ", "a">>, <<" ">>, <<>> },
      pdfs      |-> { NoPdf },
      files     |-> OneFile,
      responses |-> Responses,
      table_out |-> { Returned(<<"t">>), Returned(<<>>) },
      rag_out   |-> { Returned(<<"k">>), Returned(<<>>), NoAnswerKey, Raised },
      synth_out |-> { Returned(<<"m">>), Raised } ]

\* One request at a time: the /answer endpoint is an async function that
\* calls process_query without awaiting, so the event loop runs each request
\* to its response before it takes the next.
\* What prev records of the request that returns.
Returning(r) == [valid |-> TRUE, raw |-> req[r].raw, cls |-> req[r].cls]

SeqStep(r, E) ==
    \/ answer_question(r, E) /\ UNCHANGED served
    \/ Rejected(r)
    \/ ManagerNode(r, E)
    \/ TableNode(r, E)
    \/ RagNode(r, E)
    \/ ParallelSubmit(r)
    \/ RunTableDone(r, E)
    \/ RunRagDone(r, E)
    \/ ParallelJoin(r)
    \/ CombinerNode(r, E)
    \/ ProcessQueryReturn(r)
    \/ Respond(r) /\ prev' = Returning(r)

Init == InitWith(AgentConfigs)

Next == SeqStep(1, FlowEnv)

Spec == Init /\ [][Next]_vars

-----------------------------------------------------------------------------
(* Claims on the workflow of a request (Spec).                             *)

\* _manager_node has run for request r.
PastManager(r) == req[r].trace # <<>>

\* Request r has left _manager_node and its edge, and no other node has run.
JustRouted(r) == req[r].trace = <<"manager">>

\* The request holds the decision KNOWLEDGE with the original query text.
KnowledgeWithOriginalQuery(r) ==
    /\ req[r].needs_rag /\ ~req[r].needs_table
    /\ req[r].rag_sub_query = req[r].query

\* A Decision Service response that is not JSON, not an object, or lacks one
\* of the three fields.
MalformedOrFieldsMissing(b) ==
    \/ b.kind \in {"malformed", "nonobject"}
    \/ b.kind = "object" /\ (b.status = "missing" \/ b.rag = Missing \/ b.table = Missing)

SpecNextNode(status) ==
    CASE status = "table" -> "table"
      [] status = "rag"   -> "rag"
      [] status = "both"  -> "parallel"
      [] OTHER            -> "END"

\* C7 as stated: the decision status alone selects the next state, and any
\* status other than table, rag, both leads to NO_ROUTE (no node runs).
C7_StatusSelectsNextOrNoRoute ==
    \A r \in Reqs :
        (JustRouted(r) /\ req[r].status_seen # "none")
            => req[r].pc = SpecNextNode(req[r].status_seen)

\* C7 amended: table, rag and both select the structured node, the knowledge
\* node and the parallel node; any other status is treated as KNOWLEDGE with
\* the original query text and goes to the knowledge node; NO_ROUTE is never
\* taken.
C7_StatusSelectsNextDefaultKnowledge ==
    \A r \in Reqs :
        JustRouted(r) =>
            /\ req[r].pc # "END"
            /\ req[r].status_seen = "table" => req[r].pc = "table"
            /\ req[r].status_seen = "rag"   => req[r].pc = "rag"
            /\ req[r].status_seen = "both"  => req[r].pc = "parallel"
            /\ req[r].status_seen \notin {"table", "rag", "both"}
                  => req[r].pc = "rag" /\ KnowledgeWithOriginalQuery(r)

\* C7 witness: a status other than the three was obtained and the request
\* stands at the knowledge node.
C7_Witness ==
    \E r \in Reqs :
        JustRouted(r) /\ req[r].status_seen = "other" /\ req[r].pc = "rag"

\* The node sequences START, CLASSIFY, one branch state, COMBINE allows
\* (NO_ROUTE runs no node between the manager and the combiner).
AllowedPaths ==
    { <<"manager", "table", "combiner">>, <<"manager", "rag", "combiner">>,
      <<"manager", "parallel", "combiner">>, <<"manager", "combiner">> }

NoRepeat(t) == \A i, j \in DOMAIN t : i # j => t[i] # t[j]

C10_BothHasSubQueries ==
    \A r \in Reqs :
        (req[r].needs_table /\ req[r].needs_rag) =>
            /\ Truthy(req[r].table_sub_query)
            /\ Truthy(req[r].rag_sub_query)

\* C10 witness: BOTH was served from a cache entry whose sub-queries are
\* empty.
C10_Witness ==
    \E r \in Reqs :
        /\ req[r].cls = "hit" /\ req[r].needs_table /\ req[r].needs_rag
        /\ DictHas(classification_cache, QueryHash(req[r].query))
        /\ DictGet(classification_cache, QueryHash(req[r].query)).rag_sub_query = <<>>
        /\ DictGet(classification_cache, QueryHash(req[r].query)).table_sub_query = <<>>

\* Node n has run for request r.
HasRun(r, n) == \E i \in DOMAIN req[r].trace : req[r].trace[i] = n

\* C24: the edge "to_rag" from the structured node to the knowledge node is
\* never taken: the structured node is entered only with needs_rag false, it
\* is always followed by the combiner, and a request whose decision is BOTH
\* runs the parallel node and never the structured or the knowledge node.
C24_ToRagNeverTaken ==
    \A r \in Reqs :
        /\ req[r].pc = "table" => ~req[r].needs_rag
        /\ HasRun(r, "table") =>
              /\ ~HasRun(r, "rag") /\ req[r].pc # "rag"
              /\ after_table_route(req[r]) = "to_combiner"
              /\ req[r].trace[Len(req[r].trace)] = "table" => req[r].pc = "combiner"
        /\ (PastManager(r) /\ req[r].needs_table /\ req[r].needs_rag) =>
              /\ ~HasRun(r, "table") /\ ~HasRun(r, "rag")
              /\ req[r].pc \notin {"table", "rag"}
              /\ JustRouted(r) => req[r].pc = "parallel"

\* C24 witness: the structured node has just run and the request stands at
\* the combiner.
C24_Witness ==
    \E r \in Reqs :
        /\ req[r].trace = <<"manager", "table">>
        /\ req[r].pc = "combiner"
        /\ agents.table_agent

-----------------------------------------------------------------------------
(* The decision cache under a stream of requests (CacheSpec).              *)

OneText(kind) == { Returned(<<kind>>) }

DecisionBody(status, rag, table) ==
    [kind |-> "object", status |-> status, rag |-> rag, table |-> table]

\* Four query keys, one of them written three ways; one response per
\* decision, a response that is not JSON and a call that raises; every
\* service answers.
CacheEnv ==
    [ raws      |-> { <<"a">>, <<"A">>, <<" ", "a", " ">>, <<"b">>, <<"c">>,
                      <<"d">>, <<>> },
      pdfs      |-> { NoPdf },
      files     |-> OneFile,
      responses |-> [wrap : {"bare"},
                     body : { [kind |-> "malformed", status |-> "", rag |-> Missing,
                               table |-> Missing],
                              QuotaBody,
                              DecisionBody("table", Missing, <<"s">>),
                              DecisionBody("rag", <<"s">>, Missing),
                              DecisionBody("both", <<"s">>, <<"s">>) }],
      table_out |-> OneText("t"),
      rag_out   |-> OneText("k"),
      synth_out |-> OneText("m") ]

CacheInit == InitWith({AllAgents})

CacheNext == SeqStep(1, CacheEnv)

CacheSpec == CacheInit /\ [][CacheNext]_vars

\* C1: the decision cache never holds more entries than its capacity.
C1_CacheWithinCapacity == Len(classification_cache) <= cache_max_size

\* C1 witness: a request inserted its decision into a full cache, an entry
\* was evicted, and the cache is full.
C1_Witness ==
    /\ Len(classification_cache) = cache_max_size
    /\ \E r \in Reqs : req[r].evicted # <<>>

\* The text of a request as the Classifier's cache key sees it: case-folded
\* and trimmed.
Normalized(raw) == lower(strip(raw))

\* Request r was submitted right after a request with the same normalized
\* text returned, and has left _manager_node.
ResubmittedSame(r) ==
    /\ PastManager(r)
    /\ prev.valid
    /\ Normalized(prev.raw) = Normalized(req[r].raw)

DecisionCallsOf(cls) == IF cls = "hit" THEN 0 ELSE 1

\* C2 as stated: of two requests with the same normalized text submitted one
\* after the other, the second is a cache hit and the Decision Service is
\* invoked exactly once in total.
C2_ResubmitCallsOnce ==
    \A r \in Reqs :
        ResubmittedSame(r) =>
            /\ req[r].cls = "hit"
            /\ DecisionCallsOf(prev.cls) + req[r].decision_calls = 1

\* C2 amended: when the first request ended with its decision in the cache
\* (a hit, or a miss whose response was parsed), the second is a cache hit
\* and makes no Decision Service call, so the service is invoked once in
\* total after a parsed miss and not at all after a hit; when the first
\* request's response could not be parsed nothing was cached and the second
\* request calls the Decision Service again.
C2_ResubmitHitsIffCached ==
    \A r \in Reqs :
        ResubmittedSame(r) =>
            /\ prev.cls \in {"hit", "parsed"}
                  => req[r].cls = "hit" /\ req[r].decision_calls = 0
            /\ prev.cls = "parsed"
                  => DecisionCallsOf(prev.cls) + req[r].decision_calls = 1
            /\ prev.cls = "failed"
                  => req[r].cls # "hit" /\ req[r].decision_calls = 1

\* C2 witness: a request whose text differs from the previous one only in
\* case or surrounding whitespace was served from the cache after a parsed
\* miss.
C2_Witness ==
    \E r \in Reqs :
        /\ ResubmittedSame(r)
        /\ prev.raw # req[r].raw
        /\ prev.cls = "parsed"
        /\ req[r].cls = "hit"

\* C3: when the cache holds cache_max_size entries and the decision for a
\* key it does not hold is inserted, exactly the first entry is evicted; the
\* other entries keep their order and the new entry is last.
C3_EvictsOldestOnly ==
    [][ \A r \in Reqs :
          LET h == QueryHash(req[r].query)
              n == Len(classification_cache)
          IN  ( /\ req[r].pc = "manager"
                /\ req'[r].cls = "parsed"
                /\ n = cache_max_size
                /\ ~DictHas(classification_cache, h) )
              => /\ Len(classification_cache') = n
                 /\ \A i \in 2..n : classification_cache'[i - 1] = classification_cache[i]
                 /\ classification_cache'[n].k = h
                 /\ ~DictHas(classification_cache', classification_cache[1].k)
      ]_vars

\* C3 witness: a request's insertion evicted an entry; the evicted key is
\* gone and the request's own key is the last entry.
C3_Witness ==
    \E r \in Reqs :
        /\ req[r].evicted # <<>>
        /\ ~DictHas(classification_cache, req[r].evicted[1])
        /\ classification_cache # <<>>
        /\ classification_cache[Len(classification_cache)].k = QueryHash(req[r].query)

\* C25: a request whose classification fails leaves the decision cache as it
\* was, and a request with the same normalized text that follows one whose
\* classification failed is not served from the cache and calls the Decision
\* Service again.
C25_FailedClassificationNotCached ==
    [][ \A r \in Reqs :
          /\ (req[r].pc = "manager" /\ req'[r].cls = "failed")
                => classification_cache' = classification_cache
          /\ (ResubmittedSame(r)' /\ prev'.cls = "failed")
                => /\ req'[r].cls # "hit"
                   /\ req'[r].decision_calls = 1
      ]_vars

\* C25 witness: with entries in the cache, a request failed to classify, the
\* same text was submitted again and the Decision Service was called again;
\* the text has no entry.
C25_Witness ==
    \E r \in Reqs :
        /\ ResubmittedSame(r) /\ prev.cls = "failed"
        /\ req[r].cls = "failed" /\ req[r].decision_calls = 1
        /\ req[r].body = QuotaBody
        /\ classification_cache # <<>>
        /\ ~DictHas(classification_cache, QueryHash(req[r].query))

\* C26: a cache hit leaves the decision cache as it was, entries and order,
\* and the entry an insertion evicts is the first of the dict, the one
\* inserted earliest, whether or not it was hit since.
C26_HitLeavesCacheUnchanged ==
    [][ \A r \in Reqs :
          /\ (req[r].pc = "manager" /\ req'[r].cls = "hit")
                => classification_cache' = classification_cache
          /\ (req[r].pc = "manager" /\ req'[r].evicted # <<>>)
                => /\ req'[r].evicted[1] = classification_cache[1].k
                   /\ \A i \in 2..Len(classification_cache) :
                        classification_cache'[i - 1] = classification_cache[i]
      ]_vars

\* C26 witness: the entry that the previous request hit was the oldest, and
\* the insertion of this request evicted it.
C26_Witness ==
    \E r \in Reqs :
        /\ PastManager(r) /\ prev.valid /\ prev.cls = "hit"
        /\ req[r].evicted = <<QueryHash(strip(prev.raw))>>

\* The query type that names the services request r called.
TypeOfServicesRun(r) ==
    IF req[r].table_calls > 0 /\ req[r].rag_calls > 0 THEN "both"
    ELSE IF req[r].table_calls > 0 THEN "table"
    ELSE IF req[r].rag_calls > 0 THEN "rag"
    ELSE "unknown"

\* C28: the query_type, used_table and used_rag that process_query reports
\* name the services the request called: "table" for the structured service
\* alone, "rag" for the knowledge service alone, "both" for both, and never
\* "unknown" for a request that called a service.
C28_ReportedTypeMatchesServices ==
    \A r \in Reqs :
        (req[r].pc = "done" /\ req[r].result.success) =>
            /\ req[r].result.query_type = TypeOfServicesRun(r)
            /\ req[r].result.used_table = (req[r].table_calls > 0)
            /\ req[r].result.used_rag = (req[r].rag_calls > 0)

-----------------------------------------------------------------------------
(* The schema cache over time and over document scopes (SchemaSpec).       *)

\* Two document scopes (no document, and document p1), every state of the
\* schema file, and a clock.
SchemaEnv ==
    [ raws      |-> { <<"a">>, <<>> },
      pdfs      |-> { NoPdf, "p1" },
      files     |-> SchemaFiles,
      responses |-> [wrap : {"bare"},
                     body : { DecisionBody("table", Missing, <<"s">>),
                              DecisionBody("rag", <<"s">>, Missing),
                              DecisionBody("both", <<"s">>, <<"s">>) }],
      table_out |-> OneText("t"),
      rag_out   |-> OneText("k"),
      synth_out |-> OneText("m") ]

SchemaNext ==
    \/ SeqStep(1, SchemaEnv)
    \/ Tick

SchemaSpec == CacheInit /\ [][SchemaNext]_vars

\* C4: a schema text served from the cache was stored for its own scope
\* less than schema_cache_ttl ago.
C4_ServedSchemaWithinTTL ==
    last_load.hit => last_load.age < schema_cache_ttl

\* C29: a decision served from the cache was given by the Decision Service
\* to a request with the same document scope (pdf_uuid), and so with the
\* same schema context, as the request it is served to.
C29_CachedDecisionSameScope ==
    \A r \in Reqs :
        (PastManager(r) /\ req[r].cls = "hit") => req[r].served_for = <<req[r].pdf_uuid>>

\* C30: the tables TableAgent.process_query hands to SQL generation for a
\* request with a document scope all belong to that document.
C30_OnlyScopedTablesOffered ==
    \A r \in Reqs :
        (req[r].offered # <<>> /\ req[r].pdf_uuid # NoPdf) =>
            \A t \in req[r].offered[1] : t.pdf_uuid = req[r].pdf_uuid

-----------------------------------------------------------------------------
(* Requests classified in different threads (ConcSpec).                    *)

\* process_query is a plain method of the one ManagerAgent; callers in
\* several threads run _manager_node at once on the same dict.
ConcEnv ==
    [ raws      |-> { <<"a">>, <<"b">>, <<"c">>, <<"d">>, <<>> },
      pdfs      |-> { NoPdf },
      files     |-> OneFile,
      responses |-> [wrap : {"bare"},
                     body : { DecisionBody("table", Missing, <<"s">>),
                              DecisionBody("both", <<"s">>, <<"s">>) }],
      table_out |-> OneText("t"),
      rag_out   |-> OneText("k"),
      synth_out |-> OneText("m") ]

ConcStep(r, E) ==
    \/ answer_question(r, E) /\ served < MaxServed /\ served' = served + 1
    \/ Rejected(r)
    \/ ManagerProbe(r, E)
    \/ ManagerHitRead(r)
    \/ ManagerInvoke(r, E)
    \/ ManagerStore(r)
    \/ ManagerLen(r)
    \/ ManagerFirst(r)
    \/ ManagerPop(r)
    \/ TableNode(r, E)
    \/ RagNode(r, E)
    \/ ParallelSubmit(r)
    \/ RunTableDone(r, E)
    \/ RunRagDone(r, E)
    \/ ParallelJoin(r)
    \/ CombinerNode(r, E)
    \/ ProcessQueryReturn(r)
    \/ Respond(r) /\ UNCHANGED prev

ConcNext == \E r \in Reqs : ConcStep(r, ConcEnv)

ConcSpec == CacheInit /\ [][ConcNext]_vars

\* Request r has inserted its decision and has not finished the size test
\* and the eviction that follow.
InInsertEvict(r) == req[r].pc \in {"m_len", "m_first", "m_pop"}

\* No two requests are inside their insert-then-evict steps at once.
InsertEvictNeverInterleave ==
    \A r1, r2 \in Reqs : InInsertEvict(r1) /\ InInsertEvict(r2) => r1 = r2

\* Whenever no request is inside its insert-then-evict steps the cache is
\* within its capacity.
CapacityWhenQuiescent ==
    (\A r \in Reqs : ~InInsertEvict(r)) => Len(classification_cache) <= cache_max_size

\* C5: when requests classify in several threads, the insert-then-evict
\* steps of two requests never interleave, and so the capacity bound holds
\* in every interleaving.
C5_InsertEvictExclusive ==
    /\ InsertEvictNeverInterleave
    /\ CapacityWhenQuiescent

\* Request r has left _manager_node.
LeftManager(r) ==
    req[r].pc \in {"table", "rag", "parallel", "parallel_wait", "combiner", "END", "done"}

\* C27: in every interleaving, a request that obtained a decision (parsed
\* from the Decision Service response, or read from the cache) leaves
\* _manager_node routed by that decision; what other requests do to the
\* cache never sends it to the error default.
C27_ParsedDecisionRoutes ==
    \A r \in Reqs :
        (LeftManager(r) /\ req[r].status_seen \in {"table", "rag", "both"}) =>
            /\ req[r].needs_table = (req[r].status_seen \in {"table", "both"})
            /\ req[r].needs_rag = (req[r].status_seen \in {"rag", "both"})
            /\ req[r].cls # "failed"

-----------------------------------------------------------------------------
(* The final answer of a request (AnswerSpec).                             *)

\* The rows of a query result as TableAgent formats them: one "* " line per
\* row.  e1 and e2 stand for the texts of two rows.
TwoRows == <<"e1", "\n", "* ", "e2">>

\* What TableAgent.process_query can return: a single value, with a space
\* after it or blank, two rows, no rows, and no SQL (the LLM gave none, or
\* its call failed on the quota).
TableAgentOutcomes ==
    { TableAgentOutcome("value", <<"7">>), TableAgentOutcome("value", <<"7", " ">>),
      TableAgentOutcome("value", <<" ">>), TableAgentOutcome("rows", TwoRows),
      TableAgentOutcome("noresults", <<>>),
      TableAgentOutcome("nosql", <<>>), TableAgentOutcome("nosql", QuotaMessage) }

\* What chatbot_agent.answer_question can do: return an answer (plain, with
\* whitespace around it, blank, or empty), return no "answer" key, or raise.
ChatbotOutcomes ==
    { Returned(<<"k">>), Returned(<<" ", "k", "\n">>), Returned(<<" ">>),
      Returned(<<>>), NoAnswerKey, Raised }

\* One query, the three decisions, and every outcome of the three services
\* (the call to the TableAgent raising is what the nodes guard against; the
\* synthesis LLM may return any text, with or without the rows it was given).
AnswerEnv ==
    [ raws      |-> { <<"a">>, <<>> },
      pdfs      |-> { NoPdf },
      files     |-> OneFile,
      responses |-> [wrap : {"bare"},
                     body : { DecisionBody("table", Missing, <<"s">>),
                              DecisionBody("rag", <<"s">>, Missing),
                              DecisionBody("both", <<"s">>, <<"s">>),
                              QuotaBody }],
      table_out |-> TableAgentOutcomes \cup { Raised },
      rag_out   |-> ChatbotOutcomes,
      synth_out |-> { Returned(<<"m">>), Returned(<<" ", "m">>), Returned(<<" ">>),
                      Returned(<<"k", " ", "e1">>), Raised, RaisedQuota } ]

AnswerNext == SeqStep(1, AnswerEnv)

AnswerSpec == Init /\ [][AnswerNext]_vars

\* process_query has returned for request r.
Done(r) == req[r].pc = "done"

\* C11: when the decision is "table" and the TableAgent returned a text, the
\* answer process_query returns is that text, character for character.
C11_StructuredAnswerVerbatim ==
    \A r \in Reqs :
        (Done(r) /\ req[r].query_type = "table" /\ req[r].table_ret # <<>>)
            => req[r].result.answer = req[r].table_ret[1]

\* C11 witness: a "table" request whose TableAgent text ends in a space was
\* answered with that text.
C11_Witness ==
    \E r \in Reqs :
        /\ Done(r) /\ req[r].query_type = "table" /\ req[r].table_ret # <<>>
        /\ agents.combiner_agent
        /\ rstrip(req[r].table_ret[1]) # req[r].table_ret[1]
        /\ req[r].result.answer = req[r].table_ret[1]

\* Request r has run _combiner_node; its two partials are still in its state.
Combined(r) == req[r].pc \in {"END", "done"}

\* A partial is present when it is not the empty text.
ExactlyOnePartial(r) == Truthy(req[r].table_response) # Truthy(req[r].rag_response)

BothPartials(r) == Truthy(req[r].table_response) /\ Truthy(req[r].rag_response)

\* The one partial of a request that has exactly one.
ThePartial(r) == Or(req[r].table_response, req[r].rag_response)

\* C12: the synthesis LLM is not called when exactly one partial is present;
\* when it is called, both partials are present.
C12_SynthesisOnlyForBoth ==
    \A r \in Reqs :
        Combined(r) =>
            /\ ExactlyOnePartial(r) => req[r].synth_calls = 0
            /\ req[r].synth_calls > 0 => BothPartials(r)

\* C12 witness: with the CombinerAgent set, a request with one partial was
\* combined without a call to the LLM.
C12_Witness ==
    \E r \in Reqs :
        /\ Combined(r) /\ agents.combiner_agent
        /\ ExactlyOnePartial(r) /\ req[r].synth_calls = 0

\* C13 as stated: with exactly one partial present the answer is that
\* partial with leading and trailing whitespace removed.
C13_SinglePartialTrimmed ==
    \A r \in Reqs :
        (Combined(r) /\ ExactlyOnePartial(r)) => req[r].response = strip(ThePartial(r))

NoInformation(r) ==
    <<"No information available from ",
      IF Truthy(req[r].table_response) THEN "data analysis" ELSE "knowledge base",
      " for your query.">>

\* C13 amended: with exactly one partial present the answer is that partial
\* unchanged, whitespace included; only a partial that is all whitespace is
\* replaced, when the CombinerAgent is set, by the "No information available"
\* text of its source.
C13_SinglePartialUnchanged ==
    \A r \in Reqs :
        (Combined(r) /\ ExactlyOnePartial(r)) =>
            req[r].response =
                IF agents.combiner_agent /\ ~Truthy(strip(ThePartial(r)))
                THEN NoInformation(r) ELSE ThePartial(r)

\* C13 witness: a single partial with whitespace around it became the answer
\* as it was, and differs from its trimmed form.
C13_Witness ==
    \E r \in Reqs :
        /\ Combined(r) /\ ExactlyOnePartial(r) /\ agents.combiner_agent
        /\ strip(ThePartial(r)) # ThePartial(r)
        /\ Truthy(strip(ThePartial(r)))
        /\ req[r].response = ThePartial(r)

\* The call to the synthesis LLM was made and raised.
SynthesisFailed(r) == req[r].synth_calls = 1 /\ req[r].synth_ret = <<>>

BlankLine == <<"\n", "\n">>

\* C14 as stated: when both partials are present and the synthesis call
\* fails, the answer is the knowledge partial, a blank line, the structured
\* partial, a blank partial being skipped.
C14_FallbackConcatenation ==
    \A r \in Reqs :
        (Combined(r) /\ BothPartials(r) /\ SynthesisFailed(r)) =>
            LET k == req[r].rag_response
                t == req[r].table_response
            IN  req[r].response =
                    IF Truthy(strip(k)) /\ Truthy(strip(t)) THEN k \o BlankLine \o t
                    ELSE IF Truthy(strip(k)) THEN k
                    ELSE t

\* C14 amended: the parts of the concatenation are the partials trimmed: the
\* knowledge partial trimmed, a blank line, the structured partial trimmed, a
\* part that is blank being skipped together with the blank line.
C14_FallbackConcatenationTrimmed ==
    \A r \in Reqs :
        (Combined(r) /\ BothPartials(r) /\ SynthesisFailed(r)) =>
            LET k == strip(req[r].rag_response)
                t == strip(req[r].table_response)
            IN  req[r].response =
                    IF Truthy(k) /\ Truthy(t) THEN k \o BlankLine \o t
                    ELSE IF Truthy(k) THEN k
                    ELSE IF Truthy(t) THEN t
                    ELSE <<"No response could be generated for your query.">>

\* C14 witness: the synthesis call failed and the answer is the two partials,
\* knowledge first, each trimmed of whitespace it had.
C14_Witness ==
    \E r \in Reqs :
        /\ Combined(r) /\ BothPartials(r) /\ SynthesisFailed(r)
        /\ strip(req[r].rag_response) # req[r].rag_response
        /\ Truthy(strip(req[r].rag_response))
        /\ req[r].response = strip(req[r].rag_response) \o BlankLine
                               \o strip(req[r].table_response)

\* Request r has left _parallel_node.
Joined(r) ==
    /\ \E i \in DOMAIN req[r].trace : req[r].trace[i] = "parallel"
    /\ req[r].pc \in {"combiner", "END", "done"}

\* C15: in _parallel_node, when the call of one branch raises, that branch
\* yields its error text, the other branch's text is delivered as the service
\* returned it, and the node returns only with both branches concluded.
C15_BranchFailureIsolated ==
    \A r \in Reqs :
        Joined(r) =>
            /\ req[r].table_future = "done" /\ req[r].rag_future = "done"
            /\ req[r].rag_kind = "raise" =>
                  /\ req[r].rag_result = <<"RAG processing error: ">> \o RagQueryToUse(req[r])
                  /\ req[r].table_ret # <<>> => req[r].table_result = req[r].table_ret[1]
            /\ req[r].table_kind = "raise" =>
                  /\ req[r].table_result =
                         <<"Table processing error: ">> \o TableQueryToUse(req[r])
                  /\ req[r].rag_ret # <<>> => req[r].rag_result = req[r].rag_ret[1]

\* C15 witness: the knowledge call raised, the TableAgent returned a text,
\* and the node returned with the TableAgent's text.
C15_Witness ==
    \E r \in Reqs :
        /\ Joined(r) /\ req[r].rag_kind = "raise" /\ req[r].table_ret # <<>>
        /\ req[r].table_result = req[r].table_ret[1]
        /\ req[r].first_done = "rag"

\* C16: whichever branch finishes first, the node hands on run_table's
\* result as table_response and run_rag's result as rag_response.
C16_PartialsByName ==
    \A r \in Reqs :
        Joined(r) =>
            /\ req[r].table_response = req[r].table_result
            /\ req[r].rag_response = req[r].rag_result

\* C16 witness: the knowledge branch finished first, the two results differ,
\* and each went to its own field.
C16_Witness ==
    \E r \in Reqs :
        /\ Joined(r) /\ req[r].first_done = "rag"
        /\ req[r].table_result # req[r].rag_result
        /\ req[r].table_response = req[r].table_result
        /\ req[r].rag_response = req[r].rag_result

\* C17: the two branches are started together: neither is unstarted while
\* the other runs or has finished, and the node waits only with both started.
C17_BothStartedBeforeWait ==
    \A r \in Reqs :
        /\ (req[r].table_future = "none") <=> (req[r].rag_future = "none")
        /\ req[r].pc = "parallel_wait" =>
              req[r].table_future # "none" /\ req[r].rag_future # "none"

\* C17 witness: both calls are in flight at the same time.
C17_Witness ==
    \E r \in Reqs :
        req[r].table_future = "running" /\ req[r].rag_future = "running"

\* sub occurs in text.
Contains(text, sub) ==
    \E i \in 0..(Len(text) - Len(sub)) : SubSeq(text, i + 1, i + Len(sub)) = sub

\* A "both" request whose structured branch ended in an error text while the
\* knowledge service returned an answer that is not blank.
TableErrorKnowledgeOk(r) ==
    /\ Done(r) /\ req[r].query_type = "both"
    /\ req[r].table_kind \in {"raise", "nosql", "noschema", "dberror", "error"}
    /\ req[r].rag_ret # <<>>
    /\ Truthy(strip(req[r].rag_ret[1]))

AnswerNonEmpty(r) == req[r].result.answer # <<>>

AnswerHasKnowledge(r) == Contains(req[r].result.answer, strip(req[r].rag_ret[1]))

\* C18: for a "both" request whose structured branch gave an error text and
\* whose knowledge branch succeeded, the answer is not empty and contains the
\* knowledge answer.
C18_KnowledgeSurvivesTableError ==
    \A r \in Reqs :
        TableErrorKnowledgeOk(r) => AnswerNonEmpty(r) /\ AnswerHasKnowledge(r)

\* The first half of C18 alone.
NonEmptyOnTableError ==
    \A r \in Reqs : TableErrorKnowledgeOk(r) => AnswerNonEmpty(r)

\* Neither partial is present.
NoPartial(r) == ~Truthy(req[r].table_response) /\ ~Truthy(req[r].rag_response)

\* C22: with neither partial present the answer is the fixed message that no
\* response could be generated (the CombinerAgent's apology, or "No response
\* generated" when no CombinerAgent is set) and the synthesis LLM is not
\* called.
C22_NoPartialGenericMessage ==
    \A r \in Reqs :
        (Combined(r) /\ NoPartial(r)) =>
            /\ req[r].response = IF agents.combiner_agent THEN Apology
                                 ELSE <<"No response generated">>
            /\ req[r].synth_calls = 0
            /\ Done(r) => req[r].result.answer = req[r].response

\* C22 witness: the knowledge service returned an empty answer, no partial
\* was present, and the CombinerAgent's apology was returned.
C22_Witness ==
    \E r \in Reqs :
        /\ Done(r) /\ NoPartial(r) /\ agents.combiner_agent
        /\ req[r].rag_ret = << <<>> >>
        /\ req[r].result.answer = Apology

\* The row texts that occur in a text.
RowTexts == {"e1", "e2"}

EntriesOf(text) == { text[i] : i \in DOMAIN text } \cap RowTexts

\* A "both" request whose TableAgent returned rows.
BothWithRows(r) ==
    /\ Done(r) /\ req[r].query_type = "both"
    /\ req[r].table_kind = "rows" /\ req[r].table_ret # <<>>

\* C23: for a "both" request, every row entry of the structured partial is
\* in the answer, and so the answer holds as many entries as the partial, on
\* the synthesis path and on the concatenation path.
C23_EntriesNotDropped ==
    \A r \in Reqs :
        BothWithRows(r) =>
            /\ EntriesOf(req[r].table_ret[1]) \subseteq EntriesOf(req[r].result.answer)
            /\ Cardinality(EntriesOf(req[r].result.answer))
                 = Cardinality(EntriesOf(req[r].table_ret[1]))

\* The concatenation half of C23 alone: when the synthesis LLM was not asked
\* or its call raised, the entries are all in the answer.
EntriesKeptWithoutSynthesis ==
    \A r \in Reqs :
        (BothWithRows(r) /\ req[r].synth_ret = <<>>) =>
            EntriesOf(req[r].table_ret[1]) \subseteq EntriesOf(req[r].result.answer)

\* C20: a request one of whose LLM calls (decision, synthesis, SQL
\* generation) failed on the quota returns the error kind QUOTA_EXCEEDED.
C20_QuotaSurfaced ==
    \A r \in Reqs :
        (Done(r) /\ req[r].quota # {}) => req[r].result.error = "QUOTA_EXCEEDED"

-----------------------------------------------------------------------------
(* Failures of the components and of the workflow itself (FaultSpec).      *)

\* One query; a Decision Service that answers, answers with text that is
\* not JSON, or raises; services that answer, raise or report their own
\* error; an executor that may fail to start a thread.
FaultEnv ==
    [ raws      |-> { <<"a">>, <<>> },
      pdfs      |-> { NoPdf },
      files     |-> OneFile,
      responses |-> [wrap : {"bare"},
                     body : { [kind |-> "malformed", status |-> "", rag |-> Missing,
                               table |-> Missing],
                              DecisionBody("table", Missing, <<"s">>),
                              DecisionBody("both", <<"s">>, <<"s">>),
                              QuotaBody }],
      table_out |-> { TableAgentOutcome("value", <<"7">>), TableAgentOutcome("error", <<>>),
                      TableAgentOutcome("dberror", <<>>), Raised },
      rag_out   |-> { Returned(<<"k">>), NoAnswerKey, Raised },
      synth_out |-> { Returned(<<"m">>), Raised } ]

FaultNext ==
    \/ SeqStep(1, FaultEnv)
    \/ ExecutorFails(1)

FaultSpec == Init /\ [][FaultNext]_vars

\* The two answers of process_query's except branch.
FailureMessages ==
    { <<"GEMINI API QUOTA EXCEEDED">>,
      <<"I encountered an error while processing your question. Please try again.">> }

\* The text a node puts in place of a service whose call raised.
TableErrorTexts(r) ==
    { <<"Error processing data query: ">> \o TableQueryToUse(req[r]),
      <<"Table processing error: ">> \o TableQueryToUse(req[r]) }

RagErrorTexts(r) ==
    { <<"RAG processing error: ">> \o RagQueryToUse(req[r]) }

\* C21: process_query always returns a result.  A failure of the classifier
\* sends the request to the knowledge node, a branch whose call raised or
\* reported an error leaves a text in its place, a failed synthesis leaves the
\* concatenation, and the request returns success with the answer of the
\* workflow; success is false only when the workflow itself raised, and the
\* answer is then one of the two fixed messages.
C21_FailuresBecomeText ==
    \A r \in Reqs :
        /\ (PastManager(r) /\ req[r].cls = "failed" /\ ~req[r].fault)
              => req[r].needs_rag /\ ~req[r].needs_table
        /\ (Combined(r) /\ ~req[r].fault) =>
              /\ req[r].table_kind = "raise" => req[r].table_response \in TableErrorTexts(r)
              /\ req[r].table_kind \in {"error", "dberror"}
                    => Truthy(req[r].table_response)
              /\ req[r].rag_kind = "raise" => req[r].rag_response \in RagErrorTexts(r)
              /\ SynthesisFailed(r) => Truthy(req[r].response)
        /\ Done(r) =>
              /\ req[r].result.success = ~req[r].fault
              /\ ~req[r].fault => req[r].result.answer = req[r].response
              /\ req[r].fault => req[r].result.answer \in FailureMessages

\* C21 witness: the classifier failed and the knowledge call raised, and the
\* request returned success with the knowledge node's error text as answer.
C21_Witness ==
    \E r \in Reqs :
        /\ Done(r) /\ req[r].cls = "failed" /\ req[r].rag_kind = "raise"
        /\ req[r].result.success
        /\ req[r].result.answer \in RagErrorTexts(r)

-----------------------------------------------------------------------------
(* External calls that never return (HangSpec).                            *)

\* No call of the code is given a timeout: self.llm.invoke, process_query of
\* the TableAgent, answer_question of the chatbot and result() of the two
\* futures block until the callee returns.  E.hang names the services that
\* may never return.

\* A node's call never returns: the node, and with it workflow.invoke and the
\* request, stay where they are.  _manager_node calls the LLM on a cache miss,
\* _combiner_node when both partials are present.
CallNeverReturns(r, E) ==
    /\ \/ /\ req[r].pc = "manager"
          /\ "decision" \in E.hang
          /\ ~DictHas(classification_cache, QueryHash(req[r].query))
       \/ /\ req[r].pc = "table"
          /\ "table" \in E.hang /\ agents.table_agent
       \/ /\ req[r].pc = "rag"
          /\ "rag" \in E.hang /\ agents.chatbot_agent
       \/ /\ req[r].pc = "combiner"
          /\ "synthesis" \in E.hang /\ agents.combiner_agent
          /\ SynthesisCalled(req[r].table_response, req[r].rag_response)
    /\ req' = [req EXCEPT ![r].pc = "blocked"]
    /\ UNCHANGED <<classification_cache, schema_cache, schema_cache_time, now,
                   agents, refreshed, last_load, decided_for, prev, served>>

\* The call of a branch of _parallel_node never returns: its future is never
\* done and result() waits for it without a timeout.
BranchNeverReturns(r, E) ==
    /\ req[r].pc = "parallel_wait"
    /\ \/ /\ req[r].table_future = "running"
          /\ "table" \in E.hang /\ agents.table_agent
          /\ req' = [req EXCEPT ![r].table_future = "hung"]
       \/ /\ req[r].rag_future = "running"
          /\ "rag" \in E.hang /\ agents.chatbot_agent
          /\ req' = [req EXCEPT ![r].rag_future = "hung"]
    /\ UNCHANGED <<classification_cache, schema_cache, schema_cache_time, now,
                   agents, refreshed, last_load, decided_for, prev, served>>

\* One query, the three decisions, services that answer or never return.
HangEnv ==
    [ raws      |-> { <<"a">>, <<"b">>, <<>> },
      pdfs      |-> { NoPdf },
      files     |-> OneFile,
      responses |-> [wrap : {"bare"},
                     body : { DecisionBody("table", Missing, <<"s">>),
                              DecisionBody("rag", <<"s">>, Missing),
                              DecisionBody("both", <<"s">>, <<"s">>) }],
      table_out |-> OneText("t"),
      rag_out   |-> OneText("k"),
      synth_out |-> OneText("m"),
      hang      |-> {"decision", "table", "rag", "synthesis"} ]

HangNext ==
    \/ SeqStep(1, HangEnv)
    \/ CallNeverReturns(1, HangEnv)
    \/ BranchNeverReturns(1, HangEnv)

\* Every step that can be taken is eventually taken: the program's threads
\* keep running.
HangSpec == CacheInit /\ [][HangNext]_vars /\ WF_vars(HangNext)

\* C19: every request that enters the workflow reaches the end of
\* process_query, whatever its external calls do.
C19_EveryRequestReturns ==
    \A r \in Reqs : (req[r].pc = "manager") ~> Done(r)

====
